---- MODULE Spec2Model ----
(***************************************************************************)
(* Model of article_analyzer.py: the RateLimitHandler (sliding window,     *)
(* cooldown, backoff), the two classification calls of Analyzer and the    *)
(* per-page pipeline analyze_url driven by main.                           *)
(*                                                                         *)
(* Time is counted in whole seconds.  datetime.now() is the variable now;  *)
(* asyncio.sleep(d) advances it by d.  None is modelled as -1 where the    *)
(* code holds an optional datetime (quota_reset_time) or an optional       *)
(* number of seconds (retry_delay_seconds).                                *)
(***************************************************************************)
EXTENDS Integers, Sequences, FiniteSets, TLC

VARIABLES
    \* ---- RateLimitHandler fields and the clock
    now,                      \* datetime.now(), seconds
    max_requests_per_minute,  \* RateLimitHandler.max_requests_per_minute
    requests_timestamps,      \* RateLimitHandler.requests_timestamps
    quota_exceeded,           \* RateLimitHandler.quota_exceeded
    quota_reset_time,         \* RateLimitHandler.quota_reset_time (None = -1)
    error_count,              \* RateLimitHandler.error_count
    \* ---- history of the calls made directly on a RateLimitHandler
    last_call,                \* the last call made on the handler and its pre-state
    last_quota,               \* the last handle_quota_error call (at, hint)
    steps,                    \* number of calls made so far
    \* ---- a single call of extract_snippet or associate_links
    fn_in,                    \* the arguments of the call
    fn_out,                   \* the value returned
    fn_pc,                    \* "ready" before the call, "done" after it
    \* ---- main and the analyze_url call in progress
    urls,                     \* main: the list of URLs to process
    url_index,                \* main: index (from 1) of the URL being processed
    results,                  \* main: results
    results_input,            \* for each record of results, the URL it was made for
    pc,                       \* control point of main / analyze_url
    url,                      \* analyze_url: url
    page,                     \* analyze_url: the page handle's page
    open_pages,               \* page handles acquired and not closed
    final_url,                \* analyze_url: final_url
    html,                     \* analyze_url: html
    text,                     \* analyze_url: text
    attempt,                  \* get_categories / get_site_type: attempt
    categories,               \* analyze_url: categories
    site_type,                \* analyze_url: site_type
    structured_content,       \* analyze_url: structured_content
    cat_index,                \* analyze_url: position of the loop over categories
    result,                   \* the record analyze_url returned
    hist,                     \* the classification call in progress or just returned
    invoke_log,               \* start times of the llm.invoke calls of the last 60s
    last_failure,             \* how the last failed attempt failed
    faults,                   \* failed inference attempts so far in the run
    entry,                    \* the handler's fields and open_pages as analyze_url was entered
    events,                   \* the collaborator calls of the analyze_url call, in order
    \* ---- analyze_url tasks run concurrently on one event loop
    tasks                     \* per task: where its get_categories call is

throttleVars == <<now, max_requests_per_minute, requests_timestamps,
                  quota_exceeded, quota_reset_time, error_count>>
harnessVars == <<last_call, last_quota, steps>>
fnVars == <<fn_in, fn_out, fn_pc>>
mainVars == <<urls, url_index, results, results_input>>
frameVars == <<url, page, open_pages, final_url, html, text, attempt, categories,
               site_type, structured_content, cat_index, result>>
ghostVars == <<hist, invoke_log, last_failure, faults>>
traceVars == <<entry, events>>
pipeVars == <<mainVars, pc, frameVars, ghostVars, traceVars>>
concVars == <<tasks>>
vars == <<throttleVars, harnessVars, fnVars, pipeVars, concVars>>

----------------------------------------------------------------------------
\* Program constants

None == -1
WINDOW == 60
DEFAULT_COOLDOWN == 3600
max_backoff == 60

\* Bounds of the model

MaxCap == 2
MaxSteps == 7
MaxTime == 130
MaxElems == 3
MaxAnchors == 6
MaxUrls == 2
MaxFaults == 3
MaxTasks == 2

----------------------------------------------------------------------------
\* Helpers

Min(a, b) == IF a <= b THEN a ELSE b

RECURSIVE Pow2(_)
Pow2(k) == IF k <= 0 THEN 1 ELSE 2 * Pow2(k - 1)

RECURSIVE SeqMin(_)
SeqMin(s) == IF Len(s) = 1 THEN s[1] ELSE Min(s[1], SeqMin(Tail(s)))

----------------------------------------------------------------------------
\* RateLimitHandler

\* wait_if_needed, lines 55-59: the sleep of the cooldown branch (0: no sleep)
CooldownWait(qe, qrt, n) ==
    IF qe /\ qrt # None /\ n < qrt THEN qrt - n ELSE 0

\* wait_if_needed, lines 55-62: the cooldown is cleared in the else branch only
CooldownExpired(qe, qrt, n) ==
    qe /\ qrt # None /\ ~(n < qrt)

\* wait_if_needed, lines 64-65
PruneWindow(ts, n) ==
    LET cutoff == n - WINDOW
    IN  SelectSeq(ts, LAMBDA t : t > cutoff)

RateWait_strict(ts, n, cap) ==
    IF Len(ts) > cap
    THEN LET wait_time == WINDOW - (n - SeqMin(ts))
         IN  IF wait_time > 0 THEN wait_time ELSE 0
    ELSE 0

\* wait_if_needed, lines 67-72: the sleep of the rate-window branch
RateWait(ts, n, cap) ==
    IF Len(ts) >= cap
    THEN LET wait_time == WINDOW - (n - SeqMin(ts))
         IN  IF wait_time > 0 THEN wait_time ELSE 0
    ELSE 0

\* wait_if_needed as one sequential call: now is read once (line 53) and
\* both branches use that reading
wait_if_needed ==
    LET n == now
        s1 == CooldownWait(quota_exceeded, quota_reset_time, n)
        expired == CooldownExpired(quota_exceeded, quota_reset_time, n)
        kept == PruneWindow(requests_timestamps, n)
        s2 == RateWait(kept, n, max_requests_per_minute)
    IN  /\ quota_exceeded' = IF expired THEN FALSE ELSE quota_exceeded
        /\ quota_reset_time' = IF expired THEN None ELSE quota_reset_time
        /\ requests_timestamps' = kept
        /\ now' = now + s1 + s2
        /\ UNCHANGED <<max_requests_per_minute, error_count>>

\* the total time wait_if_needed sleeps when called in the current state
WaitSlept ==
    CooldownWait(quota_exceeded, quota_reset_time, now)
    + RateWait(PruneWindow(requests_timestamps, now), now, max_requests_per_minute)

\* record_request, lines 74-76 (reset_backoff, lines 91-92, included)
\* t is datetime.now() at the call
record_request(t) ==
    /\ requests_timestamps' = Append(requests_timestamps, t)
    /\ error_count' = 0
    /\ UNCHANGED <<max_requests_per_minute, quota_exceeded, quota_reset_time>>

\* handle_quota_error, lines 78-82: a hint that is None or 0 is falsy
CooldownSeconds(retry_delay_seconds) ==
    IF retry_delay_seconds # None /\ retry_delay_seconds # 0
    THEN retry_delay_seconds
    ELSE DEFAULT_COOLDOWN

handle_quota_error(retry_delay_seconds) ==
    /\ quota_exceeded' = TRUE
    /\ quota_reset_time' = now + CooldownSeconds(retry_delay_seconds)
    /\ UNCHANGED <<now, max_requests_per_minute, requests_timestamps, error_count>>

BackoffDelay_unclamped(ec, jitter) == Pow2(ec) + jitter

\* backoff, line 86; random.uniform(0, 1) is the jitter, 0 or 1 in whole seconds
BackoffDelay(ec, jitter) == Min(Pow2(ec) + jitter, max_backoff)

\* backoff, lines 85-89
backoff(jitter) ==
    /\ now' = now + BackoffDelay(error_count, jitter)
    /\ error_count' = error_count + 1
    /\ UNCHANGED <<max_requests_per_minute, requests_timestamps,
                   quota_exceeded, quota_reset_time>>

----------------------------------------------------------------------------
\* A client calling the RateLimitHandler directly, one call after another

Hints == {None, 0, 5}
ElapseSteps == {1, 5, 60}
Jitters == {0, 1}

PreState(op, arg) ==
    [op |-> op, arg |-> arg, at |-> now, ts |-> requests_timestamps,
     qe |-> quota_exceeded, qrt |-> quota_reset_time, ec |-> error_count]

ThrottleInit ==
    /\ now = 0
    /\ max_requests_per_minute \in 1..MaxCap
    /\ requests_timestamps = <<>>
    /\ quota_exceeded = FALSE
    /\ quota_reset_time = None
    /\ error_count = 0

HarnessInit ==
    /\ last_call = [op |-> "init", arg |-> None, at |-> 0, ts |-> <<>>,
                    qe |-> FALSE, qrt |-> None, ec |-> 0]
    /\ last_quota = [at |-> None, hint |-> None]
    /\ steps = 0

CanCall == steps < MaxSteps /\ now <= MaxTime

T_wait_if_needed ==
    /\ CanCall
    /\ wait_if_needed
    /\ last_call' = PreState("wait_if_needed", None)
    /\ steps' = steps + 1
    /\ UNCHANGED <<last_quota, fnVars, pipeVars, concVars>>

T_record_request ==
    /\ CanCall
    /\ record_request(now)
    /\ UNCHANGED now
    /\ last_call' = PreState("record_request", None)
    /\ steps' = steps + 1
    /\ UNCHANGED <<last_quota, fnVars, pipeVars, concVars>>

T_handle_quota_error ==
    /\ CanCall
    /\ \E r \in Hints :
          /\ handle_quota_error(r)
          /\ last_call' = PreState("handle_quota_error", r)
          /\ last_quota' = [at |-> now, hint |-> r]
    /\ steps' = steps + 1
    /\ UNCHANGED <<fnVars, pipeVars, concVars>>

T_backoff ==
    /\ CanCall
    /\ \E j \in Jitters :
          /\ backoff(j)
          /\ last_call' = PreState("backoff", j)
    /\ steps' = steps + 1
    /\ UNCHANGED <<last_quota, fnVars, pipeVars, concVars>>

\* time passing between two calls
T_elapse ==
    /\ CanCall
    /\ \E d \in ElapseSteps :
          /\ now' = now + d
          /\ last_call' = PreState("elapse", d)
    /\ steps' = steps + 1
    /\ UNCHANGED <<max_requests_per_minute, requests_timestamps, quota_exceeded,
                   quota_reset_time, error_count, last_quota, fnVars, pipeVars, concVars>>

NoUrl == [scheme |-> "", netloc |-> "", path |-> ""]
EmptyText == [len |-> 0, kws |-> {}]
NoPage == [ok |-> FALSE, anchors |-> <<>>]
NoResult ==
    [URL |-> NoUrl, site_type |-> "", extracted_web_content |-> EmptyText,
     content |-> <<>>, errors |-> "unset"]
NoReply == [raises |-> TRUE, kind |-> "none"]
NoHist == [fn |-> "none", invokes |-> 0, raised |-> 0, backoffs |-> 0,
           returned |-> FALSE, value |-> <<>>, reply |-> NoReply]
NoEntry == [at |-> None, ts |-> <<>>, qe |-> FALSE, qrt |-> None, ec |-> 0,
            open_pages |-> 0]

\* the locals of analyze_url before the call
FrameIdle ==
    /\ url = NoUrl
    /\ page = NoPage
    /\ final_url = NoUrl
    /\ html = <<>>
    /\ text = EmptyText
    /\ attempt = 0
    /\ categories = <<>>
    /\ site_type = ""
    /\ structured_content = <<>>
    /\ cat_index = 0
    /\ result = NoResult

PipeIdle ==
    /\ tasks = <<>>
    /\ urls = <<>>
    /\ url_index = 0
    /\ results = <<>>
    /\ results_input = <<>>
    /\ pc = "idle"
    /\ open_pages = 0
    /\ FrameIdle
    /\ hist = NoHist
    /\ invoke_log = <<>>
    /\ last_failure = "none"
    /\ faults = 0
    /\ entry = NoEntry
    /\ events = <<>>

FnIdle == fn_in = <<>> /\ fn_out = <<>> /\ fn_pc = "idle"

InitThrottle == ThrottleInit /\ HarnessInit /\ FnIdle /\ PipeIdle

NextThrottle ==
    \/ T_wait_if_needed
    \/ T_record_request
    \/ T_handle_quota_error
    \/ T_backoff
    \/ T_elapse

SpecThrottle == InitThrottle /\ [][NextThrottle]_vars

----------------------------------------------------------------------------
\* Claims about the RateLimitHandler called directly (SpecThrottle)

\* C2: with no cooldown set and at least max_requests_per_minute recorded
\* timestamps younger than 60 seconds, wait_if_needed suspends for more than
\* 0 and at most 60 seconds, and wakes exactly when the oldest of them is
\* 60 seconds old.
C2_FullWindowWaits ==
    LET c == last_call
        live == {i \in DOMAIN c.ts : c.at - c.ts[i] < WINDOW}
    IN  (/\ c.op = "wait_if_needed"
         /\ ~c.qe
         /\ Cardinality(live) >= max_requests_per_minute)
        => LET slept == now - c.at
               oldest == CHOOSE i \in live : \A j \in live : c.ts[i] <= c.ts[j]
           IN  /\ slept > 0
               /\ slept <= 60
               /\ now = c.ts[oldest] + 60

\* C2 witness: cap 2, wait/record twice at time 0, then a third
\* wait_if_needed at time 0 that has returned at time 60.
C2_Witness ==
    /\ max_requests_per_minute = 2
    /\ steps = 5
    /\ last_call.op = "wait_if_needed"
    /\ last_call.at = 0
    /\ last_call.ts = <<0, 0>>
    /\ ~last_call.qe
    /\ now = 60

\* C4: after handle_quota_error(r) at time t with an empty request window, a
\* wait_if_needed started at t+d suspends for r-d when d < r and for 0 when
\* d >= r, and when the expiry t+r has been reached as that wait_if_needed
\* returns the cooldown is cleared (quota_exceeded false, quota_reset_time
\* None).
C4_CooldownWaitAndClear ==
    LET c == last_call
        q == last_quota
    IN  (/\ c.op = "wait_if_needed"
         /\ c.ts = <<>>
         /\ q.at # None
         /\ q.hint # None)
        => LET d == c.at - q.at
               r == q.hint
               slept == now - c.at
           IN  /\ slept = (IF d < r THEN r - d ELSE 0)
               /\ (now >= q.at + r =>
                      ~quota_exceeded /\ quota_reset_time = None)

\* C12: every delay backoff computes is at least 0 and at most max_backoff,
\* and without the jitter the delay does not decrease as the error counter
\* grows: min(2^j, max_backoff) <= min(2^k, max_backoff) for j <= k.
C12_BackoffDelayBounded ==
    last_call.op = "backoff"
    => LET k == last_call.ec
           slept == now - last_call.at
       IN  /\ slept >= 0
           /\ slept <= max_backoff
           /\ \A jitter \in Jitters :
                 BackoffDelay(k, jitter) >= 0 /\ BackoffDelay(k, jitter) <= max_backoff
           /\ \A j \in 0..k : BackoffDelay(j, 0) <= BackoffDelay(k, 0)

\* C12 witness: the seventh backoff in a row (error counter 6, 2^6 = 64)
\* has slept max_backoff seconds.
C12_Witness ==
    /\ last_call.op = "backoff"
    /\ last_call.ec = 6
    /\ now - last_call.at = max_backoff

\* C19: handle_quota_error sets the cooldown flag and sets the expiry to
\* now + hint for every hint that is given, a hint of 0 included, and to
\* now + 3600 only when no hint is given.
C19_HintZeroIsAHint ==
    last_call.op = "handle_quota_error"
    => /\ quota_exceeded
       /\ quota_reset_time =
             last_call.at + (IF last_call.arg = None THEN DEFAULT_COOLDOWN
                                                     ELSE last_call.arg)

\* the timestamps of ts younger than 60 seconds at time t, as a set of positions
LiveAt(ts, t) == {i \in DOMAIN ts : t - ts[i] < WINDOW}

\* the time from n until fewer than cap timestamps of ts are younger than 60
\* seconds
UntilBelowCap(ts, n, cap) ==
    CHOOSE d \in 0..WINDOW :
        /\ Cardinality(LiveAt(ts, n + d)) < cap
        /\ \A e \in 0..(d - 1) : Cardinality(LiveAt(ts, n + e)) >= cap

\* C20: one wait_if_needed call suspends in total for the larger of the
\* remaining cooldown time and the time until fewer than
\* max_requests_per_minute recorded timestamps are within the last 60
\* seconds, both measured as the call starts.
C20_WaitsNoLongerThanNeeded ==
    LET c == last_call
    IN  c.op = "wait_if_needed"
        => LET cooldown == IF c.qe /\ c.qrt # None /\ c.at < c.qrt
                           THEN c.qrt - c.at ELSE 0
               window == UntilBelowCap(c.ts, c.at, max_requests_per_minute)
           IN  now - c.at = (IF cooldown >= window THEN cooldown ELSE window)

----------------------------------------------------------------------------
\* Categories, keywords and text
\*
\* A string is modelled by its length and the set of keywords it contains
\* once lower-cased: [len |-> n, kws |-> K].

CATEGORY_LIST ==
    <<"About Us", "Products & Services", "Leadership/Team",
      "Blog/News/Press Release", "Contact/Support", "Privacy/Legal",
      "Careers/Jobs", "Other">>

CATEGORY_KEYWORDS ==
    [c \in {CATEGORY_LIST[i] : i \in DOMAIN CATEGORY_LIST} |->
        CASE c = "About Us" -> {"about us", "our story", "who we are"}
          [] c = "Products & Services" -> {"product", "service", "solution"}
          [] c = "Leadership/Team" -> {"our team", "leadership", "ceo", "founder"}
          [] c = "Blog/News/Press Release" -> {"blog", "news", "press"}
          [] c = "Contact/Support" -> {"contact", "support", "help", "reach"}
          [] c = "Privacy/Legal" -> {"privacy", "terms", "policy"}
          [] c = "Careers/Jobs" -> {"career", "job", "hiring"}
          [] OTHER -> {}]

\* CATEGORY_KEYWORDS.get(category, [])
KeywordsOf(category) ==
    IF category \in DOMAIN CATEGORY_KEYWORDS THEN CATEGORY_KEYWORDS[category] ELSE {}

\* any(kw in t for kw in keywords)
AnyKeywordIn(t, keywords) == t.kws \cap keywords # {}

SNIPPET_MAX == 500

\* t[:n]; the keywords of a string that is cut are not tracked
Slice(t, n) ==
    IF t.len <= n THEN t ELSE [len |-> n, kws |-> {}]

\* " ".join(texts)
RECURSIVE JoinTexts(_)
JoinTexts(texts) ==
    IF Len(texts) = 0 THEN EmptyText
    ELSE IF Len(texts) = 1 THEN texts[1]
    ELSE LET rest == JoinTexts(Tail(texts))
         IN  [len |-> texts[1].len + 1 + rest.len,
              kws |-> texts[1].kws \cup rest.kws]

\* the first n elements of a sequence (limit=n, [:n])
FirstN(s, n) == SubSeq(s, 1, Min(Len(s), n))

\* the indices of a set, in increasing order
RECURSIVE SortedIdx(_)
SortedIdx(S) ==
    IF S = {} THEN <<>>
    ELSE LET m == CHOOSE i \in S : \A j \in S : i <= j
         IN  <<m>> \o SortedIdx(S \ {m})

----------------------------------------------------------------------------
\* extract_snippet
\*
\* The markup is the sequence of its elements in document order, each
\* [tag, class, text] with text the element's get_text(" ", strip=True).

HEADING_TAGS == {"h1", "h2", "h3"}
BLOCK_TAGS == {"p", "div"}
CONTENT_CLASSES == <<"post-content", "entry-content", "article-body", "content">>

\* soup.find(tag) / soup.find('div', class_=cls): index of the first such
\* element, 0 when there is none
FindTag(markup, tag) ==
    LET S == {i \in DOMAIN markup : markup[i].tag = tag}
    IN  IF S = {} THEN 0 ELSE CHOOSE i \in S : \A j \in S : i <= j

FindDivClass(markup, cls) ==
    LET S == {i \in DOMAIN markup : markup[i].tag = "div" /\ markup[i].class = cls}
    IN  IF S = {} THEN 0 ELSE CHOOSE i \in S : \A j \in S : i <= j

\* lines 127-131: the first heading whose text holds a keyword, 0 when none
FirstMatchingHeading(markup, keywords) ==
    LET S == {i \in DOMAIN markup :
                 markup[i].tag \in HEADING_TAGS /\ AnyKeywordIn(markup[i].text, keywords)}
    IN  IF S = {} THEN 0 ELSE CHOOSE i \in S : \A j \in S : i <= j

\* line 130: heading.find_all_next(['p', 'div'], limit=3), joined
HeadingSnippet(markup, h) ==
    LET after == SortedIdx({j \in DOMAIN markup : j > h /\ markup[j].tag \in BLOCK_TAGS})
        blocks == FirstN(after, 3)
    IN  JoinTexts([b \in DOMAIN blocks |-> markup[blocks[b]].text])

\* lines 148-153: the first class, in priority order, whose first div holds a
\* keyword; 0 when none
FirstMatchingClass(markup, keywords) ==
    LET S == {c \in DOMAIN CONTENT_CLASSES :
                 LET d == FindDivClass(markup, CONTENT_CLASSES[c])
                 IN  d # 0 /\ AnyKeywordIn(markup[d].text, keywords)}
    IN  IF S = {} THEN 0 ELSE CHOOSE c \in S : \A e \in S : c <= e

extract_snippet(markup, category) ==
    LET keywords == KeywordsOf(category)
        h == FirstMatchingHeading(markup, keywords)
        article == FindTag(markup, "article")
        main == FindTag(markup, "main")
        c == FirstMatchingClass(markup, keywords)
    IN  IF h # 0 THEN Slice(HeadingSnippet(markup, h), SNIPPET_MAX)
        ELSE IF article # 0 /\ AnyKeywordIn(markup[article].text, keywords)
             THEN Slice(markup[article].text, SNIPPET_MAX)
        ELSE IF main # 0 /\ AnyKeywordIn(markup[main].text, keywords)
             THEN Slice(markup[main].text, SNIPPET_MAX)
        ELSE IF c # 0
             THEN Slice(markup[FindDivClass(markup, CONTENT_CLASSES[c])].text, SNIPPET_MAX)
        ELSE EmptyText

\* Inputs of a single extract_snippet call
SampleTexts ==
    { EmptyText,
      [len |-> 20, kws |-> {}],
      [len |-> 8, kws |-> {"about us"}],
      [len |-> 600, kws |-> {"about us"}] }

SampleElements ==
    [tag : {"h2", "p", "article", "main"}, class : {""}, text : SampleTexts]
    \cup [tag : {"div"}, class : {"content"}, text : SampleTexts]

SampleMarkup == UNION {[1..n -> SampleElements] : n \in 0..MaxElems}

SnippetCategories == {"About Us", "Other"}

InitSnippet ==
    /\ ThrottleInit /\ max_requests_per_minute = 1
    /\ HarnessInit
    /\ fn_in \in [html : SampleMarkup, category : SnippetCategories]
    /\ fn_out = <<>>
    /\ fn_pc = "ready"
    /\ PipeIdle

CallExtractSnippet ==
    /\ fn_pc = "ready"
    /\ fn_out' = extract_snippet(fn_in.html, fn_in.category)
    /\ fn_pc' = "done"
    /\ UNCHANGED <<fn_in, throttleVars, harnessVars, pipeVars, concVars>>

NextSnippet == CallExtractSnippet

SpecSnippet == InitSnippet /\ [][NextSnippet]_vars

\* the texts the tiers of extract_snippet match keywords against
TierTexts(markup) ==
    {markup[i].text : i \in {i \in DOMAIN markup : markup[i].tag \in HEADING_TAGS}}
    \cup (IF FindTag(markup, "article") # 0
          THEN {markup[FindTag(markup, "article")].text} ELSE {})
    \cup (IF FindTag(markup, "main") # 0
          THEN {markup[FindTag(markup, "main")].text} ELSE {})
    \cup {markup[FindDivClass(markup, CONTENT_CLASSES[c])].text :
             c \in {c \in DOMAIN CONTENT_CLASSES :
                       FindDivClass(markup, CONTENT_CLASSES[c]) # 0}}

\* C10: extract_snippet returns at most 500 characters, and whenever the
\* text of a heading, of the article container, of the main container or of
\* a content-class container holds a keyword of the category, the snippet
\* returned is non-empty.
C10_SnippetBoundedAndFound ==
    fn_pc = "done" =>
        /\ fn_out.len <= 500
        /\ ((\E t \in TierTexts(fn_in.html) :
                AnyKeywordIn(t, KeywordsOf(fn_in.category)))
            => fn_out.len > 0)

----------------------------------------------------------------------------
\* associate_links
\*
\* A URL is [scheme, netloc, path], as urlparse splits it.  A raw href is
\* the same with kws, the keywords its lower-cased text contains.  A page is
\* [ok, anchors]: ok is FALSE when query_selector_all raises; an anchor is
\* [href, text].

MAX_LINKS == 5

Url(scheme, netloc, path) == [scheme |-> scheme, netloc |-> netloc, path |-> path]

\* `not href`: the empty string
IsEmptyHref(href) == href.scheme = "" /\ href.netloc = "" /\ href.path = ""

\* urljoin(base_url, href) for hrefs with an absolute path
urljoin(base_url, href) ==
    IF href.scheme # "" THEN Url(href.scheme, href.netloc, href.path)
    ELSE IF href.netloc # "" THEN Url(base_url.scheme, href.netloc, href.path)
    ELSE Url(base_url.scheme, base_url.netloc, href.path)

\* line 172: the anchor is skipped
CrossDomain(parsed, domain) == parsed.netloc # "" /\ parsed.netloc # domain

\* lines 174-175: href.lower() + " " + text holds a keyword
AnchorMatches(a, keywords) ==
    (a.href.kws \cup a.text.kws) \cap keywords # {}

\* lines 165-176
RECURSIVE CollectMatches(_, _, _)
CollectMatches(anchors, base_url, keywords) ==
    IF Len(anchors) = 0 THEN <<>>
    ELSE LET a == Head(anchors)
             rest == CollectMatches(Tail(anchors), base_url, keywords)
             abs_url == urljoin(base_url, a.href)
         IN  IF IsEmptyHref(a.href) THEN rest
             ELSE IF CrossDomain(abs_url, base_url.netloc) THEN rest
             ELSE IF AnchorMatches(a, keywords) THEN <<abs_url>> \o rest
             ELSE rest

\* list(dict.fromkeys(matches))
RECURSIVE Dedup(_)
Dedup(s) ==
    IF Len(s) = 0 THEN <<>>
    ELSE LET front == Dedup(SubSeq(s, 1, Len(s) - 1))
             last == s[Len(s)]
         IN  IF \E i \in DOMAIN front : front[i] = last
             THEN front ELSE Append(front, last)

associate_links(pg, base_url, category) ==
    IF ~pg.ok THEN <<>>
    ELSE FirstN(Dedup(CollectMatches(pg.anchors, base_url, KeywordsOf(category))),
                MAX_LINKS)

\* Inputs of a single associate_links call
SampleBase == Url("https", "a.com", "/")

Href(scheme, netloc, path, kws) ==
    [scheme |-> scheme, netloc |-> netloc, path |-> path, kws |-> kws]

SampleAnchors ==
    { [href |-> Href("", "", "/contact/1", {"contact"}), text |-> EmptyText],
      [href |-> Href("", "", "/contact/2", {"contact"}), text |-> EmptyText],
      [href |-> Href("", "", "/contact/3", {"contact"}), text |-> EmptyText],
      [href |-> Href("", "", "/contact/4", {"contact"}), text |-> EmptyText],
      [href |-> Href("https", "a.com", "/contact/1", {"contact"}), text |-> EmptyText],
      [href |-> Href("", "", "/x", {}), text |-> [len |-> 10, kws |-> {"contact"}]],
      [href |-> Href("", "b.com", "/help", {"help"}), text |-> EmptyText],
      [href |-> Href("mailto", "", "support@a.com", {"support"}), text |-> EmptyText],
      [href |-> Href("https", "a.com", "/support", {"support"}), text |-> EmptyText],
      [href |-> Href("", "", "", {}), text |-> [len |-> 10, kws |-> {"contact"}]] }

SamplePages ==
    {[ok |-> FALSE, anchors |-> <<>>]}
    \cup [ok : {TRUE},
          anchors : UNION {[1..n -> SampleAnchors] : n \in 0..MaxAnchors}]

InitLinks ==
    /\ ThrottleInit /\ max_requests_per_minute = 1
    /\ HarnessInit
    /\ fn_in \in [page : SamplePages, base_url : {SampleBase},
                  category : {"Contact/Support"}]
    /\ fn_out = <<>>
    /\ fn_pc = "ready"
    /\ PipeIdle

CallAssociateLinks ==
    /\ fn_pc = "ready"
    /\ fn_out' = associate_links(fn_in.page, fn_in.base_url, fn_in.category)
    /\ fn_pc' = "done"
    /\ UNCHANGED <<fn_in, throttleVars, harnessVars, pipeVars, concVars>>

NextLinks == CallAssociateLinks

SpecLinks == InitLinks /\ [][NextLinks]_vars

\* index of the first anchor of the page that resolves to url
FirstSeen(u) ==
    LET S == {i \in DOMAIN fn_in.page.anchors :
                 urljoin(fn_in.base_url, fn_in.page.anchors[i].href) = u}
    IN  CHOOSE i \in S : \A j \in S : i <= j

\* C9: associate_links returns at most 5 URLs, none twice, in first-seen
\* order, and the host of every returned URL equals the host of base_url.
C9_LinksBoundedUniqueSameHost ==
    fn_pc = "done" =>
        /\ Len(fn_out) <= 5
        /\ \A i, j \in DOMAIN fn_out : i # j => fn_out[i] # fn_out[j]
        /\ \A i, j \in DOMAIN fn_out : i < j => FirstSeen(fn_out[i]) < FirstSeen(fn_out[j])
        /\ \A i \in DOMAIN fn_out : fn_out[i].netloc = fn_in.base_url.netloc

----------------------------------------------------------------------------
\* The inference collaborator (self.llm.invoke)
\*
\* An invocation takes some time and then either raises or returns a
\* response.  A response is [found, valid, value]: found says whether the
\* regular expression finds a bracketed (braced) span, valid whether
\* json.loads decodes that span, value the decoded value.

MAX_ATTEMPTS == 3

InvokeDurations == {1}

Raises(kind) == [raises |-> TRUE, kind |-> kind]
Response(found, valid, value) ==
    [raises |-> FALSE, found |-> found, valid |-> valid, value |-> value]

Match(name) == [category_name |-> name, text |-> ""]

CategoryReplies ==
    { Raises("transient"),
      Raises("quota"),
      Response(FALSE, FALSE, <<>>),
      Response(TRUE, FALSE, <<>>),
      Response(TRUE, TRUE, <<>>),
      Response(TRUE, TRUE, <<Match("About Us")>>),
      Response(TRUE, TRUE, <<Match("Pricing"), Match("Contact/Support")>>),
      Response(TRUE, TRUE, <<[name |-> "About Us"]>>),
      Response(TRUE, TRUE, <<Match("About Us"), [name |-> "Contact/Support"]>>) }

SiteTypeReplies ==
    { Raises("transient"),
      Raises("quota"),
      Response(FALSE, FALSE, <<>>),
      Response(TRUE, FALSE, <<>>),
      Response(TRUE, TRUE, [site_type |-> "company"]),
      Response(TRUE, TRUE, [type |-> "company"]) }

ParseCategories_filtered(r) ==
    IF ~r.found THEN [raised |-> FALSE, value |-> <<>>]
    ELSE IF ~r.valid THEN [raised |-> TRUE, value |-> <<>>]
    ELSE [raised |-> FALSE,
          value |-> SelectSeq(r.value,
                       LAMBDA c : /\ "category_name" \in DOMAIN c
                                  /\ c.category_name \in DOMAIN CATEGORY_KEYWORDS)]

\* lines 200-201: [raised, value]
ParseCategories(r) ==
    IF ~r.found THEN [raised |-> FALSE, value |-> <<>>]
    ELSE IF ~r.valid THEN [raised |-> TRUE, value |-> <<>>]
    ELSE [raised |-> FALSE, value |-> r.value]

\* lines 221-222: [raised, value]
ParseSiteType(r) ==
    IF ~r.found THEN [raised |-> FALSE, value |-> "other"]
    ELSE IF ~r.valid THEN [raised |-> TRUE, value |-> "other"]
    ELSE [raised |-> FALSE,
          value |-> IF "site_type" \in DOMAIN r.value
                    THEN r.value.site_type ELSE "other"]

----------------------------------------------------------------------------
\* The rendering collaborator: what a navigation can show

NOISE_TAGS == {"script", "style", "nav", "footer", "aside"}

Elem(tag, class, len, kws) ==
    [tag |-> tag, class |-> class, text |-> [len |-> len, kws |-> kws]]

SampleSites ==
    { [final_url |-> Url("https", "a.com", "/"),
       html |-> <<Elem("h2", "", 8, {"about us"}), Elem("p", "", 16, {}),
                  Elem("nav", "", 7, {"contact"})>>,
       page |-> [ok |-> TRUE,
                 anchors |-> <<[href |-> Href("", "", "/contact", {"contact"}),
                                text |-> EmptyText],
                               [href |-> Href("mailto", "", "support@a.com", {"support"}),
                                text |-> EmptyText]>>]],
      [final_url |-> Url("https", "www.a.com", "/home"),
       html |-> <<Elem("h2", "", 8, {"about us"})>>,
       page |-> [ok |-> FALSE, anchors |-> <<>>]] }

NavigationErrors == {"Timeout 30000ms exceeded."}

SampleUrls == {Url("https", "a.com", "/"), Url("ftp", "x", "")}

validate_url_anyScheme(u) == u.scheme # ""

\* validate_url, lines 117-119
validate_url(u) == u.scheme \in {"http", "https"}

\* lines 239-243: the text of the markup without the noise elements
CleanText(markup) ==
    LET keep == SortedIdx({j \in DOMAIN markup : markup[j].tag \notin NOISE_TAGS})
    IN  JoinTexts([j \in DOMAIN keep |-> markup[keep[j]].text])

----------------------------------------------------------------------------
\* analyze_url

\* line 231
InvalidUrlRecord(u) ==
    [URL |-> u, site_type |-> "other", extracted_web_content |-> EmptyText,
     content |-> <<>>, errors |-> "Invalid URL"]

ErrorRecord_keepsText(u, e) ==
    [URL |-> u, site_type |-> "other", extracted_web_content |-> text,
     content |-> <<>>, errors |-> e]

\* lines 266-267: the record of the except branch
ErrorRecord(u, e) ==
    [URL |-> u, site_type |-> "other", extracted_web_content |-> EmptyText,
     content |-> <<>>, errors |-> e]

\* lines 258-264
SuccessRecord ==
    [URL |-> final_url, site_type |-> site_type, extracted_web_content |-> text,
     content |-> structured_content, errors |-> "None"]

LogInvoke == Append(SelectSeq(invoke_log, LAMBDA t : t > now - WINDOW), now)

NewHist(fn) == [fn |-> fn, invokes |-> 0, raised |-> 0, backoffs |-> 0,
                returned |-> FALSE, value |-> <<>>, reply |-> NoReply]

\* the handler's fields and the number of open page handles, as they are now
Snapshot ==
    [at |-> now, ts |-> requests_timestamps, qe |-> quota_exceeded,
     qrt |-> quota_reset_time, ec |-> error_count, open_pages |-> open_pages]

Log(e) == events' = Append(events, e)

AfterCategories_skipsSiteType == "assemble"

\* lines 245-246: get_site_type is called once get_categories has returned
AfterCategories == "site_wait"

\* main, lines 303-305: the next URL is handed to analyze_url
MainCall ==
    /\ pc = "main"
    /\ url_index <= Len(urls)
    /\ url' = urls[url_index]
    /\ pc' = "validate"
    /\ entry' = Snapshot
    /\ events' = <<>>
    /\ UNCHANGED <<throttleVars, harnessVars, fnVars, concVars, mainVars, ghostVars,
                   page, open_pages, final_url, html, text, attempt, categories,
                   site_type, structured_content, cat_index, result>>

\* lines 230-231
Validate ==
    /\ pc = "validate"
    /\ IF validate_url(url)
       THEN pc' = "new_page" /\ UNCHANGED result
       ELSE pc' = "return" /\ result' = InvalidUrlRecord(url)
    /\ Log("validate_url")
    /\ UNCHANGED entry
    /\ UNCHANGED <<throttleVars, harnessVars, fnVars, concVars, mainVars, ghostVars,
                   url, page, open_pages, final_url, html, text, attempt, categories,
                   site_type, structured_content, cat_index>>

\* line 233
NewPage ==
    /\ pc = "new_page"
    /\ open_pages' = open_pages + 1
    /\ pc' = "goto"
    /\ Log("new_page")
    /\ UNCHANGED entry
    /\ UNCHANGED <<throttleVars, harnessVars, fnVars, concVars, mainVars, ghostVars,
                   url, page, final_url, html, text, attempt, categories,
                   site_type, structured_content, cat_index, result>>

\* lines 234-237, the navigation succeeds
GotoOk ==
    /\ pc = "goto"
    /\ \E site \in SampleSites :
          /\ page' = site.page
          /\ final_url' = site.final_url
          /\ html' = site.html
    /\ now' = now + 2
    /\ pc' = "clean"
    /\ Log("goto")
    /\ UNCHANGED entry
    /\ UNCHANGED <<max_requests_per_minute, requests_timestamps, quota_exceeded,
                   quota_reset_time, error_count, harnessVars, fnVars, concVars, mainVars,
                   ghostVars, url, open_pages, text, attempt, categories,
                   site_type, structured_content, cat_index, result>>

\* line 234 raises; lines 266-267
GotoFails ==
    /\ pc = "goto"
    /\ \E e \in NavigationErrors : result' = ErrorRecord(url, e)
    /\ pc' = "return"
    /\ Log("goto raises")
    /\ UNCHANGED entry
    /\ UNCHANGED <<throttleVars, harnessVars, fnVars, concVars, mainVars, ghostVars,
                   url, page, open_pages, final_url, html, text, attempt, categories,
                   site_type, structured_content, cat_index>>

\* lines 239-243
Clean ==
    /\ pc = "clean"
    /\ text' = CleanText(html)
    /\ attempt' = 0
    /\ pc' = "cat_wait"
    /\ UNCHANGED traceVars
    /\ UNCHANGED <<throttleVars, harnessVars, fnVars, concVars, mainVars, ghostVars,
                   url, page, open_pages, final_url, html, categories,
                   site_type, structured_content, cat_index, result>>

\* get_categories, line 186
CatWait ==
    /\ pc = "cat_wait"
    /\ wait_if_needed
    /\ hist' = IF attempt = 0 THEN NewHist("get_categories") ELSE hist
    /\ last_failure' = "none"
    /\ pc' = "cat_invoke"
    /\ UNCHANGED <<harnessVars, fnVars, concVars, mainVars, frameVars, invoke_log, faults,
                   traceVars>>

\* get_categories, lines 195-203: llm.invoke raises
CatInvokeRaises ==
    /\ pc = "cat_invoke"
    /\ \E r \in CategoryReplies, d \in InvokeDurations :
          /\ r.raises
          /\ now' = now + d
          /\ last_failure' = r.kind
    /\ faults < MaxFaults
    /\ faults' = faults + 1
    /\ invoke_log' = LogInvoke
    /\ hist' = [hist EXCEPT !.invokes = @ + 1, !.raised = @ + 1, !.reply = NoReply]
    /\ pc' = "cat_backoff"
    /\ Log("llm.invoke")
    /\ UNCHANGED entry
    /\ UNCHANGED <<max_requests_per_minute, requests_timestamps, quota_exceeded,
                   quota_reset_time, error_count, harnessVars, fnVars, concVars, mainVars,
                   frameVars>>

\* get_categories, lines 195-203: llm.invoke returns a response
CatInvokeReturns ==
    /\ pc = "cat_invoke"
    /\ \E r \in CategoryReplies, d \in InvokeDurations :
          /\ ~r.raises
          /\ now' = now + d
          /\ record_request(now + d)
          /\ LET parsed == ParseCategories(r)
             IN  IF parsed.raised
                 THEN /\ faults < MaxFaults
                      /\ faults' = faults + 1
                      /\ pc' = "cat_backoff"
                      /\ last_failure' = "malformed"
                      /\ hist' = [hist EXCEPT !.invokes = @ + 1, !.reply = r]
                      /\ Log("llm.invoke")
                      /\ UNCHANGED <<categories, attempt>>
                 ELSE /\ pc' = AfterCategories
                      /\ categories' = parsed.value
                      /\ attempt' = 0
                      /\ hist' = [hist EXCEPT !.invokes = @ + 1, !.returned = TRUE,
                                              !.value = parsed.value, !.reply = r]
                      /\ events' = events \o <<"llm.invoke", "get_categories returns">>
                      /\ UNCHANGED <<last_failure, faults>>
    /\ invoke_log' = LogInvoke
    /\ UNCHANGED entry
    /\ UNCHANGED <<harnessVars, fnVars, concVars, mainVars, url, page, open_pages, final_url,
                   html, text, site_type, structured_content, cat_index, result>>

\* get_categories, lines 202-205
CatBackoff ==
    /\ pc = "cat_backoff"
    /\ \E j \in Jitters : backoff(j)
    /\ IF attempt + 1 < MAX_ATTEMPTS
       THEN /\ attempt' = attempt + 1
            /\ pc' = "cat_wait"
            /\ hist' = [hist EXCEPT !.backoffs = @ + 1]
            /\ UNCHANGED <<categories, events>>
       ELSE /\ attempt' = 0
            /\ pc' = AfterCategories
            /\ categories' = <<>>
            /\ Log("get_categories returns")
            /\ hist' = [hist EXCEPT !.backoffs = @ + 1, !.returned = TRUE,
                                    !.value = <<>>]
    /\ UNCHANGED <<harnessVars, fnVars, concVars, mainVars, url, page, open_pages, final_url,
                   html, text, site_type, structured_content, cat_index, result,
                   invoke_log, last_failure, faults, entry>>

\* get_site_type, line 210
SiteWait ==
    /\ pc = "site_wait"
    /\ wait_if_needed
    /\ hist' = IF attempt = 0 THEN NewHist("get_site_type") ELSE hist
    /\ last_failure' = "none"
    /\ pc' = "site_invoke"
    /\ UNCHANGED <<harnessVars, fnVars, concVars, mainVars, frameVars, invoke_log, faults,
                   traceVars>>

\* get_site_type, lines 216-224: llm.invoke raises
SiteInvokeRaises ==
    /\ pc = "site_invoke"
    /\ \E r \in SiteTypeReplies, d \in InvokeDurations :
          /\ r.raises
          /\ now' = now + d
          /\ last_failure' = r.kind
    /\ faults < MaxFaults
    /\ faults' = faults + 1
    /\ invoke_log' = LogInvoke
    /\ hist' = [hist EXCEPT !.invokes = @ + 1, !.raised = @ + 1, !.reply = NoReply]
    /\ pc' = "site_backoff"
    /\ Log("llm.invoke")
    /\ UNCHANGED entry
    /\ UNCHANGED <<max_requests_per_minute, requests_timestamps, quota_exceeded,
                   quota_reset_time, error_count, harnessVars, fnVars, concVars, mainVars,
                   frameVars>>

\* get_site_type, lines 216-224: llm.invoke returns a response
SiteInvokeReturns ==
    /\ pc = "site_invoke"
    /\ \E r \in SiteTypeReplies, d \in InvokeDurations :
          /\ ~r.raises
          /\ now' = now + d
          /\ record_request(now + d)
          /\ LET parsed == ParseSiteType(r)
             IN  IF parsed.raised
                 THEN /\ faults < MaxFaults
                      /\ faults' = faults + 1
                      /\ pc' = "site_backoff"
                      /\ last_failure' = "malformed"
                      /\ hist' = [hist EXCEPT !.invokes = @ + 1, !.reply = r]
                      /\ Log("llm.invoke")
                      /\ UNCHANGED <<site_type, attempt, cat_index>>
                 ELSE /\ pc' = "assemble"
                      /\ site_type' = parsed.value
                      /\ attempt' = 0
                      /\ cat_index' = 1
                      /\ hist' = [hist EXCEPT !.invokes = @ + 1, !.returned = TRUE,
                                              !.value = parsed.value, !.reply = r]
                      /\ events' = events \o <<"llm.invoke", "get_site_type returns">>
                      /\ UNCHANGED <<last_failure, faults>>
    /\ invoke_log' = LogInvoke
    /\ UNCHANGED entry
    /\ UNCHANGED <<harnessVars, fnVars, concVars, mainVars, url, page, open_pages, final_url,
                   html, text, categories, structured_content, result>>

\* get_site_type, lines 223-226
SiteBackoff ==
    /\ pc = "site_backoff"
    /\ \E j \in Jitters : backoff(j)
    /\ IF attempt + 1 < MAX_ATTEMPTS
       THEN /\ attempt' = attempt + 1
            /\ pc' = "site_wait"
            /\ hist' = [hist EXCEPT !.backoffs = @ + 1]
            /\ UNCHANGED <<site_type, cat_index, events>>
       ELSE /\ attempt' = 0
            /\ Log("get_site_type returns")
            /\ pc' = "assemble"
            /\ site_type' = "other"
            /\ cat_index' = 1
            /\ hist' = [hist EXCEPT !.backoffs = @ + 1, !.returned = TRUE,
                                    !.value = "other"]
    /\ UNCHANGED <<harnessVars, fnVars, concVars, mainVars, url, page, open_pages, final_url,
                   html, text, categories, structured_content, result,
                   invoke_log, last_failure, faults, entry>>

\* lines 249-254: one turn of the loop over categories
AssembleStep ==
    /\ pc = "assemble"
    /\ cat_index \in DOMAIN categories
    /\ LET cat == categories[cat_index]
       IN  IF "category_name" \notin DOMAIN cat
           THEN \* line 250 raises KeyError; lines 266-267
                /\ result' = ErrorRecord(url, "'category_name'")
                /\ pc' = "return"
                /\ UNCHANGED <<structured_content, cat_index, events>>
           ELSE LET name == cat.category_name
                    snippet == extract_snippet(html, name)
                    links == associate_links(page, final_url, name)
                IN  /\ structured_content' =
                          IF snippet.len > 0 \/ Len(links) > 0
                          THEN Append(structured_content,
                                      [name |-> name, text |-> snippet, links |-> links])
                          ELSE structured_content
                    /\ cat_index' = cat_index + 1
                    /\ events' = events \o <<"extract_snippet", "associate_links">>
                    /\ UNCHANGED <<result, pc>>
    /\ UNCHANGED entry
    /\ UNCHANGED <<throttleVars, harnessVars, fnVars, concVars, mainVars, ghostVars,
                   url, page, open_pages, final_url, html, text, attempt, categories,
                   site_type>>

\* lines 256-264
CloseAndReturn ==
    /\ pc = "assemble"
    /\ cat_index > Len(categories)
    /\ open_pages' = open_pages - 1
    /\ result' = SuccessRecord
    /\ pc' = "return"
    /\ Log("page.close")
    /\ UNCHANGED entry
    /\ UNCHANGED <<throttleVars, harnessVars, fnVars, concVars, mainVars, ghostVars,
                   url, page, final_url, html, text, attempt, categories,
                   site_type, structured_content, cat_index>>

\* main, lines 305-307: the record is appended, then asyncio.sleep(2)
MainAppend ==
    /\ pc = "return"
    /\ results' = Append(results, result)
    /\ results_input' = Append(results_input, url)
    /\ url_index' = url_index + 1
    /\ now' = now + 2
    /\ pc' = "main"
    /\ url' = NoUrl
    /\ page' = NoPage
    /\ final_url' = NoUrl
    /\ html' = <<>>
    /\ text' = EmptyText
    /\ attempt' = 0
    /\ categories' = <<>>
    /\ site_type' = ""
    /\ structured_content' = <<>>
    /\ cat_index' = 0
    /\ result' = NoResult
    /\ hist' = NoHist
    /\ last_failure' = "none"
    /\ entry' = NoEntry
    /\ events' = <<>>
    /\ UNCHANGED <<max_requests_per_minute, requests_timestamps, quota_exceeded,
                   quota_reset_time, error_count, harnessVars, fnVars, concVars, urls,
                   open_pages, invoke_log, faults>>

\* main, line 309: every URL has been processed
MainDone ==
    /\ pc = "main"
    /\ url_index > Len(urls)
    /\ pc' = "done"
    /\ UNCHANGED <<throttleVars, harnessVars, fnVars, concVars, mainVars, frameVars, ghostVars,
                   traceVars>>

Init ==
    /\ ThrottleInit
    /\ HarnessInit
    /\ FnIdle
    /\ tasks = <<>>
    /\ urls \in UNION {[1..n -> SampleUrls] : n \in 1..MaxUrls}
    /\ url_index = 1
    /\ results = <<>>
    /\ results_input = <<>>
    /\ pc = "main"
    /\ open_pages = 0
    /\ FrameIdle
    /\ hist = NoHist
    /\ invoke_log = <<>>
    /\ last_failure = "none"
    /\ faults = 0
    /\ entry = NoEntry
    /\ events = <<>>

Next ==
    \/ MainCall
    \/ Validate
    \/ NewPage
    \/ GotoOk
    \/ GotoFails
    \/ Clean
    \/ CatWait
    \/ CatInvokeRaises
    \/ CatInvokeReturns
    \/ CatBackoff
    \/ SiteWait
    \/ SiteInvokeRaises
    \/ SiteInvokeReturns
    \/ SiteBackoff
    \/ AssembleStep
    \/ CloseAndReturn
    \/ MainAppend
    \/ MainDone

Spec == Init /\ [][Next]_vars

----------------------------------------------------------------------------
\* Claims about the sequential run of main (Spec)

\* the logged invocations that start within the 60 seconds ending at time t
InvokesWithin(log, t) ==
    {n \in DOMAIN log : t - WINDOW < log[n] /\ log[n] <= t}

\* C1: in a sequential run, whatever the inference responses are, no 60
\* second interval holds more than max_requests_per_minute starts of
\* llm.invoke.
C1_RateCapSequential ==
    \A n \in DOMAIN invoke_log :
        Cardinality(InvokesWithin(invoke_log, invoke_log[n])) <= max_requests_per_minute

\* C3: when an attempt of get_categories or get_site_type has failed with a
\* quota error, then before the next attempt is made the throttle is in
\* cooldown (quota_exceeded set, quota_reset_time set) and the next
\* wait_if_needed suspends until the cooldown expiry.
C3_QuotaErrorEntersCooldown ==
    (pc \in {"cat_wait", "site_wait"} /\ last_failure = "quota")
    => /\ quota_exceeded
       /\ quota_reset_time # None
       /\ now + WaitSlept >= quota_reset_time

\* C5: when every llm.invoke of a classification call raised, the call
\* returns its empty value ([] or "other") after exactly 3 attempts, with
\* backoff invoked exactly twice (between attempts 1 and 2 and between
\* attempts 2 and 3, not after the last attempt).
C5_AlwaysFailingDegrades ==
    (hist.returned /\ hist.invokes > 0 /\ hist.raised = hist.invokes)
    => /\ hist.invokes = 3
       /\ hist.backoffs = 2
       /\ hist.fn = "get_categories" => hist.value = <<>>
       /\ hist.fn = "get_site_type" => hist.value = "other"

\* C6: once validation and fetching have succeeded, analyze_url returns a
\* record with errors None, the fetched final URL and the cleaned text,
\* whatever the inference collaborator did.
C6_ClassificationNeverAborts ==
    (pc = "return" /\ final_url # NoUrl)
    => /\ result.errors = "None"
       /\ result.URL = final_url
       /\ result.extracted_web_content = text

RECORD_FIELDS == {"URL", "site_type", "extracted_web_content", "content", "errors"}

WellFormed(r) ==
    /\ DOMAIN r = RECORD_FIELDS
    /\ \/ r.errors = "None"
       \/ /\ r.errors \in {"Invalid URL", "'category_name'"} \cup NavigationErrors
          /\ r.site_type = "other"
          /\ r.extracted_web_content = EmptyText
          /\ r.content = <<>>

\* C7: every analyze_url call returns one well-formed record: errors is None,
\* or errors is the failure's description and site_type is "other", the
\* extracted text is empty and content is empty; main appends one record per
\* URL, in input order, and goes on after a failing page.
C7_OneWellFormedRecordPerUrl ==
    /\ pc = "return" => WellFormed(result)
    /\ \A n \in DOMAIN results : WellFormed(results[n])
    /\ Len(results) = url_index - 1
    /\ Len(results) <= Len(urls)
    /\ Len(results_input) = Len(results)
    /\ \A n \in DOMAIN results : results_input[n] = urls[n]
    /\ pc = "done" => Len(results) = Len(urls)

\* C7 witness: a run of two URLs is over; the first page failed after its
\* text had been extracted, the second succeeded.
C7_Witness ==
    /\ pc = "done"
    /\ Len(results) = 2
    /\ results[1].errors = "'category_name'"
    /\ results[2].errors = "None"
    /\ results[2].content # <<>>

\* C11: a URL whose scheme is neither http nor https makes analyze_url
\* return the record with errors "Invalid URL", site_type "other" and empty
\* content, and nothing else has happened since the call was entered: the
\* only step taken is the validation (no page handle opened, no llm.invoke),
\* and the handler's window, cooldown flag, cooldown expiry and error counter
\* are as they were.
C11_InvalidUrlNoCollaborator ==
    (pc = "return" /\ url.scheme \notin {"http", "https"})
    => /\ result.errors = "Invalid URL"
       /\ result.site_type = "other"
       /\ result.content = <<>>
       /\ result.URL = url
       /\ events = <<"validate_url">>
       /\ open_pages = entry.open_pages
       /\ now = entry.at
       /\ requests_timestamps = entry.ts
       /\ quota_exceeded = entry.qe
       /\ quota_reset_time = entry.qrt
       /\ error_count = entry.ec

\* C11 witness: the second URL of a run is ftp://x and analyze_url has
\* returned for it, after a first page that left timestamps in the window.
C11_Witness ==
    /\ pc = "return"
    /\ url.scheme = "ftp"
    /\ Len(results) = 1
    /\ result.errors = "Invalid URL"
    /\ entry.ts # <<>>

\* C13: every page handle analyze_url acquires is closed by the time it
\* returns, on the success path and on every failure path after the handle
\* was acquired; between and after analyze_url calls no page handle is open.
C13_PageHandleClosed ==
    pc \in {"return", "main", "done"} => open_pages = 0

\* a response from which no well-formed JSON fragment is decoded
Malformed(r) == ~r.raises /\ (~r.found \/ ~r.valid)

\* C14: an attempt of get_categories or get_site_type whose response is
\* malformed (no bracketed or braced span, or a span that is not valid JSON)
\* is followed by backoff and a retry, until 3 attempts have been used: the
\* call does not return on a malformed response before its third attempt.
C14_MalformedResponseRetried ==
    Malformed(hist.reply)
    => /\ hist.returned => hist.invokes = MAX_ATTEMPTS
       /\ ~hist.returned =>
             /\ pc \in {"cat_backoff", "cat_wait", "site_backoff", "site_wait"}
             /\ pc \in {"cat_wait", "site_wait"} => hist.backoffs = hist.invokes

\* C15: the delay slept after the k-th failed attempt (k = 0, 1, 2) of one
\* get_categories or get_site_type call is min(2^k + jitter, max_backoff),
\* whatever happened before and however the attempt failed.
C15_BackoffIndexedByAttempt ==
    pc \in {"cat_backoff", "site_backoff"}
    => \A jitter \in Jitters :
          BackoffDelay(error_count, jitter) = Min(Pow2(attempt) + jitter, max_backoff)

\* the positions of the call e among the calls of the analyze_url call
Positions(e) == {i \in DOMAIN events : events[i] = e}

\* some call a precedes position j
Preceded(j, a) == \E i \in Positions(a) : i < j

\* C16: within one analyze_url call the URL is validated before any fetch,
\* the fetch has completed before any llm.invoke, get_categories and
\* get_site_type have both returned before the first extract_snippet or
\* associate_links call, and the page handle is closed only after the last
\* associate_links call.
C16_PerPageOrdering ==
    /\ \A j \in Positions("new_page") \cup Positions("goto") \cup Positions("goto raises") :
          Preceded(j, "validate_url")
    /\ \A j \in Positions("llm.invoke") : Preceded(j, "goto")
    /\ \A j \in Positions("extract_snippet") \cup Positions("associate_links") :
          /\ Preceded(j, "get_categories returns")
          /\ Preceded(j, "get_site_type returns")
    /\ pc = "assemble" =>
          /\ Positions("get_categories returns") # {}
          /\ Positions("get_site_type returns") # {}
    /\ \A j \in Positions("page.close") :
          \A i \in Positions("associate_links") : i < j

\* C16 witness: a page with two category matches has been assembled and
\* its handle closed.
C16_Witness ==
    /\ pc = "return"
    /\ Len(categories) = 2
    /\ Cardinality(Positions("associate_links")) = 2
    /\ events[Len(events)] = "page.close"

\* the category matches for which lines 251-253 find a snippet or a link
Includable(k) ==
    /\ "category_name" \in DOMAIN categories[k]
    /\ \/ extract_snippet(html, categories[k].category_name).len > 0
       \/ Len(associate_links(page, final_url, categories[k].category_name)) > 0

Entry(k) ==
    LET name == categories[k].category_name
    IN  [name |-> name, text |-> extract_snippet(html, name),
         links |-> associate_links(page, final_url, name)]

\* C17: in every record analyze_url returns, content holds exactly the
\* returned category matches that have a non-empty snippet or at least one
\* link, in the order of the matches.
C17_ContentInclusion ==
    pc = "return"
    => LET keep == SortedIdx({k \in DOMAIN categories : Includable(k)})
       IN  result.content = [n \in DOMAIN keep |-> Entry(keep[n])]

\* C18: a category name outside CATEGORY_LIST is accepted: get_categories
\* returns the decoded list unfiltered, the assembly turn of such a match
\* raises no error, and the match is in the page's content exactly when it
\* has a non-empty snippet or at least one link.
C18_UnknownCategoryCarried ==
    /\ (hist.fn = "get_categories" /\ hist.returned /\ ~hist.reply.raises
           /\ hist.reply.found /\ hist.reply.valid)
       => hist.value = hist.reply.value /\ categories = hist.reply.value
    /\ (pc = "return" /\ result.errors = "'category_name'")
       => "category_name" \notin DOMAIN categories[cat_index]
    /\ pc \in {"assemble", "return"}
       => \A k \in DOMAIN categories :
             (/\ k < cat_index
              /\ "category_name" \in DOMAIN categories[k]
              /\ categories[k].category_name \notin DOMAIN CATEGORY_KEYWORDS)
             => ((\E n \in DOMAIN structured_content :
                     structured_content[n].name = categories[k].category_name)
                 <=> Includable(k))
    /\ (pc = "return" /\ result.errors = "None") => result.content = structured_content

\* C18 witness: a page whose matches are "Pricing" (not in CATEGORY_LIST)
\* and "Contact/Support" has been assembled and returned without error.
C18_Witness ==
    /\ pc = "return"
    /\ result.errors = "None"
    /\ Len(categories) = 2
    /\ categories[1].category_name = "Pricing"
    /\ Len(result.content) = 1

----------------------------------------------------------------------------
\* Several analyze_url tasks on one event loop, sharing the RateLimitHandler
\*
\* A task runs without interruption from one await that suspends to the
\* next: asyncio.sleep in wait_if_needed and backoff, asyncio.to_thread
\* around llm.invoke.  A sleeping task resumes once its wake time is
\* reached.  Each task is followed through its get_categories call.

Tasks == 1..MaxTasks

ConcTicks == {30}

Task(at, attempt_no, n, wake) ==
    [pc |-> at, attempt |-> attempt_no, n |-> n, wake |-> wake]

\* wait_if_needed from line 64 on, with n the reading of the clock taken at
\* line 53, up to the sleep of line 72 or, without it, to the await of
\* line 197
RateStage(p, attempt_no, n) ==
    LET kept == PruneWindow(requests_timestamps, n)
        s2 == RateWait(kept, n, max_requests_per_minute)
    IN  /\ requests_timestamps' = kept
        /\ IF s2 > 0
           THEN /\ tasks' = [tasks EXCEPT ![p] = Task("sleep_rate", attempt_no, n, now + s2)]
                /\ UNCHANGED invoke_log
           ELSE /\ tasks' = [tasks EXCEPT ![p] = Task("inflight", attempt_no, n, 0)]
                /\ invoke_log' = LogInvoke

\* wait_if_needed from line 53 up to its first sleep or, without one, up to
\* the await of line 197
EnterWait(p, attempt_no) ==
    LET n == now
        s1 == CooldownWait(quota_exceeded, quota_reset_time, n)
        expired == CooldownExpired(quota_exceeded, quota_reset_time, n)
    IN  IF s1 > 0
        THEN /\ tasks' = [tasks EXCEPT ![p] = Task("sleep_cooldown", attempt_no, n, now + s1)]
             /\ UNCHANGED <<requests_timestamps, quota_exceeded, quota_reset_time,
                            invoke_log>>
        ELSE /\ quota_exceeded' = IF expired THEN FALSE ELSE quota_exceeded
             /\ quota_reset_time' = IF expired THEN None ELSE quota_reset_time
             /\ RateStage(p, attempt_no, n)

\* the task enters get_categories: line 186
ConcStart(p) ==
    /\ tasks[p].pc = "start"
    /\ EnterWait(p, 0)
    /\ UNCHANGED <<now, max_requests_per_minute, error_count>>

\* a sleep of wait_if_needed is over: lines 59 or 72
ConcWake(p) ==
    /\ tasks[p].pc \in {"sleep_cooldown", "sleep_rate"}
    /\ now >= tasks[p].wake
    /\ IF tasks[p].pc = "sleep_cooldown"
       THEN /\ RateStage(p, tasks[p].attempt, tasks[p].n)
            /\ UNCHANGED <<quota_exceeded, quota_reset_time>>
       ELSE /\ tasks' = [tasks EXCEPT ![p] = Task("inflight", tasks[p].attempt, tasks[p].n, 0)]
            /\ invoke_log' = LogInvoke
            /\ UNCHANGED <<requests_timestamps, quota_exceeded, quota_reset_time>>
    /\ UNCHANGED <<now, max_requests_per_minute, error_count>>

\* lines 197, 202-204: llm.invoke raises; backoff computes its delay and sleeps
ConcInvokeRaises(p) ==
    /\ tasks[p].pc = "inflight"
    /\ \E j \in Jitters :
          tasks' = [tasks EXCEPT ![p] =
                       Task("sleep_backoff", tasks[p].attempt, tasks[p].n,
                            now + BackoffDelay(error_count, j))]
    /\ UNCHANGED <<throttleVars, invoke_log>>

\* lines 197-204: llm.invoke returns; the request is recorded, the response
\* parsed
ConcInvokeReturns(p) ==
    /\ tasks[p].pc = "inflight"
    /\ record_request(now)
    /\ \E r \in CategoryReplies :
          /\ ~r.raises
          /\ IF ParseCategories(r).raised
             THEN \E j \in Jitters :
                     tasks' = [tasks EXCEPT ![p] =
                                  Task("sleep_backoff", tasks[p].attempt, tasks[p].n,
                                       now + BackoffDelay(0, j))]
             ELSE tasks' = [tasks EXCEPT ![p] = Task("done", tasks[p].attempt, tasks[p].n, 0)]
    /\ UNCHANGED <<now, invoke_log>>

\* backoff, line 89, after its sleep; then the next attempt or line 205
ConcBackoffWake(p) ==
    /\ tasks[p].pc = "sleep_backoff"
    /\ now >= tasks[p].wake
    /\ error_count' = error_count + 1
    /\ IF tasks[p].attempt + 1 < MAX_ATTEMPTS
       THEN EnterWait(p, tasks[p].attempt + 1)
       ELSE /\ tasks' = [tasks EXCEPT ![p] = Task("done", tasks[p].attempt, tasks[p].n, 0)]
            /\ UNCHANGED <<requests_timestamps, quota_exceeded, quota_reset_time,
                           invoke_log>>
    /\ UNCHANGED <<now, max_requests_per_minute>>

\* time passes
ConcTick ==
    /\ \E p \in Tasks : tasks[p].pc # "done"
    /\ \E d \in ConcTicks :
          /\ now + d <= MaxTime
          /\ now' = now + d
    /\ UNCHANGED <<max_requests_per_minute, requests_timestamps, quota_exceeded,
                   quota_reset_time, error_count, tasks, invoke_log>>

ConcFrame ==
    UNCHANGED <<harnessVars, fnVars, mainVars, pc, frameVars, hist, last_failure, faults,
                traceVars>>

InitConc ==
    /\ ThrottleInit
    /\ HarnessInit
    /\ FnIdle
    /\ urls = <<>>
    /\ url_index = 0
    /\ results = <<>>
    /\ results_input = <<>>
    /\ pc = "idle"
    /\ open_pages = 0
    /\ FrameIdle
    /\ hist = NoHist
    /\ invoke_log = <<>>
    /\ last_failure = "none"
    /\ faults = 0
    /\ entry = NoEntry
    /\ events = <<>>
    /\ tasks = [p \in Tasks |-> Task("start", 0, 0, 0)]

NextConc ==
    \/ \E p \in Tasks : ConcStart(p) /\ ConcFrame
    \/ \E p \in Tasks : ConcWake(p) /\ ConcFrame
    \/ \E p \in Tasks : ConcInvokeRaises(p) /\ ConcFrame
    \/ \E p \in Tasks : ConcInvokeReturns(p) /\ ConcFrame
    \/ \E p \in Tasks : ConcBackoffWake(p) /\ ConcFrame
    \/ ConcTick /\ ConcFrame

SpecConc == InitConc /\ [][NextConc]_vars

\* C8: with several tasks sharing one RateLimitHandler, in every
\* interleaving no 60 second interval holds more than
\* max_requests_per_minute starts of llm.invoke.
C8_RateCapConcurrent ==
    \A n \in DOMAIN invoke_log :
        LET admitted == InvokesWithin(invoke_log, invoke_log[n])
        IN  Cardinality(admitted) <= max_requests_per_minute

====
